---- MODULE Spec2Model ----
(***************************************************************************)
(* A model of the usage gate (src/src/usageTracking.ts) and of the summary *)
(* post-processing (cleanSummaryText, enhanceTextWithLinks in              *)
(* src/src/App.tsx) of the Reddit search tool.                             *)
(*                                                                         *)
(* Spec      the usage gate: the anonymous cookie counter, the per         *)
(*           (user, day) Firestore counters, and browser tabs that call    *)
(*           checkUsageStatus / recordSearch / resetAnonymousUsage         *)
(*           concurrently.  An authenticated recordSearch is two store     *)
(*           round trips (getDoc, then updateDoc or setDoc), so other tabs *)
(*           may run between them.  Every store operation may fail.        *)
(***************************************************************************)
EXTENDS Integers, Sequences, FiniteSets, TLC

\* ------------------------------------------------------------------ bounds

\* Calls (of any operation) started over one run.
MaxCalls == 3
\* Calendar days after the first one (the cookie's 30 days never elapse).
MaxDay == 1

\* --------------------------------------------------------------- constants

\* usageTracking.ts:21
ANONYMOUS_SEARCH_LIMIT == 1

\* Extended naturals: FREE_USER_DAILY_LIMIT is JavaScript's Infinity.
Fin(n) == [inf |-> FALSE, n |-> n]
Infinity == [inf |-> TRUE, n |-> 0]
\* usageTracking.ts:22
FREE_USER_DAILY_LIMIT == Infinity
\* JavaScript's  count < limit  for a finite count.
LessThan(count, limit) == limit.inf \/ count < limit.n

\* Authenticated identities (Firebase uids), and the absent userId.
Users == {"u1", "u2"}
NoUser == "undefined"
Tabs == {"t1", "t2"}
Days == 0 .. MaxDay

\* ------------------------------------------------------- number <-> string

Digits == <<"0", "1", "2", "3", "4", "5", "6", "7", "8", "9">>

RECURSIVE NumberToString(_)
\* Number.prototype.toString() of a non-negative integer (usageTracking.ts:69).
NumberToString(n) ==
  IF n < 10 THEN <<Digits[n + 1]>>
  ELSE NumberToString(n \div 10) \o <<Digits[(n % 10) + 1]>>

DigitValue(c) == (CHOOSE i \in 1 .. 10 : Digits[i] = c) - 1
IsDigit(c) == \E i \in 1 .. 10 : Digits[i] = c

RECURSIVE ParseDigits(_, _, _)
ParseDigits(s, i, acc) ==
  IF i > Len(s) \/ ~IsDigit(s[i]) THEN acc
  ELSE ParseDigits(s, i + 1, acc * 10 + DigitValue(s[i]))

\* parseInt(s, 10) of a string that starts with a digit (usageTracking.ts:63):
\* the longest prefix of digits, read in base ten.
ParseInt(s) == ParseDigits(s, 1, 0)

\* ------------------------------------------------------------------- state

VARIABLES
  cookie,      \* value of the reddit_search_count cookie, or NoCookie
  userUsage,   \* Firestore collection userUsage: doc id -> document or NoDoc
  today,       \* the calendar day new Date() falls on
  pc,          \* per tab: "idle", or "inc_write" inside incrementDailySearchCount
  call,        \* per tab: the pending incrementDailySearchCount's locals
  ret,         \* per tab: what the last finished call returned or threw
  calls,       \* calls started so far
  recorded,    \* history: per doc id, recordSearch calls that returned normally
  anonSince,   \* history: anonymous recordSearch calls since the cookie was absent
  searchResults,  \* AppContent's searchResults: the summary text to display
  enhancedLinks,  \* AppContent's enhancedLinks, as Object.entries lists it
  phase,          \* which post-processing call produced out
  out,            \* the text the last post-processing call returned
  trace,          \* history: what enhanceTextWithLinks did for each entry
  app,            \* AppContent in one tab: its React state, the handleSearch
                  \* in flight, pending loads, and what it has sent and saved
  access,         \* a tier, a model, and what the access functions returned
  console,        \* SearchProgressConsole: its React state and its timers
  account         \* Header: the signed-in user and the handleDeleteAccount calls

gateVars == <<cookie, userUsage, today, pc, call, ret, calls, recorded, anonSince>>
textVars == <<searchResults, enhancedLinks, phase, out, trace>>
appVars == <<app, access>>
uiVars == <<console, account>>
vars == <<gateVars, textVars, appVars, uiVars>>

NoCookie == <<>>
NoDoc == [exists |-> FALSE, searchCount |-> 0]
NoCall == [userId |-> NoUser, ref |-> <<NoUser, 0>>, snap |-> NoDoc]
NoRet == [op |-> "none"]

DocIds == Users \X Days

\* ------------------------------------------------------------ usageTracking

\* getCookie(ANONYMOUS_COOKIE_NAME): the value, or null for an absent cookie
\* and (value || null) for an empty one.
getCookie(ck) == ck

\* getAnonymousSearchCount
getAnonymousSearchCount(ck) ==
  IF getCookie(ck) # NoCookie THEN ParseInt(getCookie(ck)) ELSE 0

\* getUserUsageDoc: the document `${userId}_${today}`.
getUserUsageDoc(userId, day) == <<userId, day>>

\* getDailySearchCount; a getDoc that rejects is caught and counted as 0.
getDailySearchCount(store, userId, day, readOk) ==
  IF readOk
  THEN LET usageDoc == store[getUserUsageDoc(userId, day)]
       IN  IF usageDoc.exists THEN usageDoc.searchCount ELSE 0
  ELSE 0

\* The authenticated path gated by the anonymous limit.
AuthStatus_AnonLimit(searchCount) ==
  [canSearch       |-> LessThan(searchCount, Fin(ANONYMOUS_SEARCH_LIMIT)),
   searchCount     |-> searchCount,
   limit           |-> Fin(ANONYMOUS_SEARCH_LIMIT),
   isAuthenticated |-> TRUE,
   requiresSignIn  |-> FALSE]

\* The UsageStatus checkUsageStatus builds on its authenticated path.
AuthStatus(searchCount) ==
  [canSearch       |-> LessThan(searchCount, FREE_USER_DAILY_LIMIT),
   searchCount     |-> searchCount,
   limit           |-> FREE_USER_DAILY_LIMIT,
   isAuthenticated |-> TRUE,
   requiresSignIn  |-> FALSE]

\* An anonymous path that never asks for a sign-in.
AnonStatus_NoSignIn(searchCount) ==
  [canSearch       |-> LessThan(searchCount, Fin(ANONYMOUS_SEARCH_LIMIT)),
   searchCount     |-> searchCount,
   limit           |-> Fin(ANONYMOUS_SEARCH_LIMIT),
   isAuthenticated |-> FALSE,
   requiresSignIn  |-> FALSE]

\* The UsageStatus checkUsageStatus builds on its anonymous path.
AnonStatus(searchCount) ==
  LET canSearch == LessThan(searchCount, Fin(ANONYMOUS_SEARCH_LIMIT))
  IN  [canSearch       |-> canSearch,
       searchCount     |-> searchCount,
       limit           |-> Fin(ANONYMOUS_SEARCH_LIMIT),
       isAuthenticated |-> FALSE,
       requiresSignIn  |-> ~canSearch]

\* checkUsageStatus(userId?)
checkUsageStatus(userId, ck, store, day, readOk) ==
  IF userId # NoUser
  THEN AuthStatus(getDailySearchCount(store, userId, day, readOk))
  ELSE AnonStatus(getAnonymousSearchCount(ck))

\* A counter that stops at the limit.
incrementAnonymousSearchCount_Capped(ck) ==
  LET currentCount == getAnonymousSearchCount(ck)
  IN  NumberToString(IF currentCount < ANONYMOUS_SEARCH_LIMIT
                     THEN currentCount + 1 ELSE currentCount)

\* A counter that is rewritten without the + 1.
incrementAnonymousSearchCount_NoAdd(ck) == NumberToString(getAnonymousSearchCount(ck))

\* incrementAnonymousSearchCount: the cookie it writes.
incrementAnonymousSearchCount(ck) == NumberToString(getAnonymousSearchCount(ck) + 1)

\* ---------------------------------------------------------- tiers and models

Tiers == {"anonymous", "free", "paid"}
\* A value outside UserTier, which reaches the default branch.
OtherTier == "enterprise"

GeminiFlash == "gemini-1.5-flash"
GeminiPro == "gemini-1.5-pro"
ClaudeSonnet == "claude-3-5-sonnet-20241022"
ClaudeHaiku == "claude-3-5-haiku-20241022"
\* A model no list offers.
OtherModel == "gpt-4"
Models == {GeminiFlash, GeminiPro, ClaudeSonnet, ClaudeHaiku}

\* An entry of a model list (the label is left out).
ModelEntry(value, isFree) == [value |-> value, isFree |-> isFree]

\* A tier function that treats every signed-in user as a subscriber.
getUserTier_Subscribed(user) == IF user = NoUser THEN "anonymous" ELSE "paid"

\* getUserTier(user)
getUserTier(user) == IF user = NoUser THEN "anonymous" ELSE "free"

\* A list that offers Gemini Pro to the free tier.
getAvailableModels_FreeTrial(tier) ==
  CASE tier = "anonymous" -> << ModelEntry(GeminiFlash, TRUE) >>
    [] tier = "free" -> << ModelEntry(GeminiFlash, TRUE), ModelEntry(GeminiPro, FALSE) >>
    [] tier = "paid" -> << ModelEntry(GeminiFlash, TRUE), ModelEntry(GeminiPro, FALSE),
                           ModelEntry(ClaudeSonnet, FALSE), ModelEntry(ClaudeHaiku, FALSE) >>
    [] OTHER -> << >>

\* getAvailableModels(tier)
getAvailableModels(tier) ==
  CASE tier \in {"anonymous", "free"} -> << ModelEntry(GeminiFlash, TRUE) >>
    [] tier = "paid" -> << ModelEntry(GeminiFlash, TRUE), ModelEntry(GeminiPro, FALSE),
                           ModelEntry(ClaudeSonnet, FALSE), ModelEntry(ClaudeHaiku, FALSE) >>
    [] OTHER -> << >>

\* isModelAllowed(model, tier)
isModelAllowed(model, tier) ==
  LET availableModels == getAvailableModels(tier)
  IN  \E i \in DOMAIN availableModels : availableModels[i].value = model

\* No call of the access functions made yet.
NoAccess == [tier |-> "anonymous", other |-> "anonymous", model |-> GeminiFlash,
             op |-> {}, models |-> <<>>, otherModels |-> <<>>, allowed |-> FALSE]

\* ----------------------------------------------------------------- the app

\* useState(null) of usageStatus; a loaded status st is <<st>>.
NoStatus == <<>>

\* The id of a record under users/{uid}/searches: saved by the n-th request
\* (n > 0) or found in the store (n = 0).  No id: searchParams.get gives null.
SearchId(n) == <<"search", n>>
NoSearchId == <<>>

\* A SearchHistoryItem the store holds from before: its model is not one
\* the free tier offers, and it has no enhancedLinks field (enhancedLinks?
\* is optional; <<>> in a record or a response body stands for a missing or
\* null field, which the code's "if (x.enhancedLinks)" skips).
OldSearch ==
  [id |-> SearchId(0), query |-> <<"q">>, model |-> ClaudeSonnet,
   summary |-> <<"b">>, enhancedLinks |-> <<>>]

\* The searches collections as the app finds them.
StoredSearches == [u \in Users |-> IF u = "u1" THEN {OldSearch} ELSE {}]

\* No response body held, no request made.
NoData == <<>>
NoReq == <<>>

\* AppContent as constructed: the useState initial values, no handleSearch
\* running, nothing loaded, sent or saved.  urlSuccess: whether the page was
\* opened with ?success=true; redirected: whether the payment-success branch
\* has run (history); authChanges: the sign-ins and sign-outs so far.
\* history: the searches collections; urlSearch: the search parameter of the
\* URL; restores: the getSearchById calls under way; req and data: the
\* query and model of the render that started the running handleSearch and
\* the response body it has read.
AppStart(urlSuccess) ==
  [mounted |-> FALSE, user |-> NoUser, userTier |-> "anonymous",
   availableModels |-> getAvailableModels("anonymous"), model |-> GeminiFlash,
   searchQuery |-> <<>>, usageStatus |-> NoStatus, showSignInModal |-> FALSE,
   error |-> "", isLoading |-> FALSE,
   pc |-> "idle", uid |-> NoUser, ref |-> <<NoUser, 0>>, snap |-> NoDoc,
   loads |-> {}, sent |-> 0, searches |-> [u \in Users |-> 0],
   urlSuccess |-> urlSuccess, redirected |-> FALSE, authChanges |-> 0,
   history |-> StoredSearches, urlSearch |-> NoSearchId, restores |-> {},
   req |-> NoReq, data |-> NoData]

\* ------------------------------------------------- the progress console

\* progressSteps: the ids, in the declared order.
progressSteps ==
  << "init", "google_search", "reddit_urls", "reddit_data", "analytics",
     "ai_summary", "extract_terms", "enhanced_search", "ai_curation", "complete" >>

\* No setTimeout pending for the effect's outer timer (a step is 0 or more).
NoTimer == -1

\* SearchProgressConsole before App has rendered it: the useState initial
\* values.  instance: how many times it has been mounted; timer: the step
\* of the pending outer setTimeout; inner: the pending inner setTimeouts,
\* each with the instance that set it and the currentStep of its closure.
ConsoleStart ==
  [instance |-> 0, isVisible |-> FALSE, currentStep |-> 0, visibleSteps |-> <<>>,
   isComplete |-> FALSE, timer |-> NoTimer, inner |-> {}]

\* ------------------------------------------------------ account deletion

\* What alert was last given.
AlertDeleted == "Your account has been successfully deleted."
AlertFailed == "Failed to delete account"

\* Header with no user signed in and no handleDeleteAccount called.
\* started: the calls so far; requests: the userIds posted to
\* /api/delete-account; inflight: the calls waiting at an await; deleted:
\* the userIds the backend answered OK for.
AccountStart ==
  [user |-> NoUser, started |-> 0, requests |-> <<>>, inflight |-> {},
   deleted |-> {}, alert |-> "", authChanges |-> 0]

\* Neither component has done anything.
UiIdle ==
  /\ console = ConsoleStart
  /\ account = AccountStart

\* ----------------------------------------------------------------- actions

Init ==
  /\ cookie \in {NoCookie, NumberToString(9)}
  /\ userUsage = [d \in DocIds |-> NoDoc]
  /\ today = 0
  /\ pc = [t \in Tabs |-> "idle"]
  /\ call = [t \in Tabs |-> NoCall]
  /\ ret = [t \in Tabs |-> NoRet]
  /\ calls = 0
  /\ recorded = [d \in DocIds |-> 0]
  /\ anonSince = IF cookie = NoCookie THEN 0 ELSE -1
  /\ searchResults = <<>>
  /\ enhancedLinks = <<>>
  /\ phase = "none"
  /\ out = <<>>
  /\ trace = <<>>
  /\ app = AppStart(FALSE)
  /\ access = NoAccess
  /\ UiIdle

Start(t) ==
  /\ pc[t] = "idle"
  /\ calls < MaxCalls
  /\ calls' = calls + 1

\* checkUsageStatus(userId?) called in tab t; readOk: whether getDoc resolves.
CheckUsageStatus(t, userId, readOk) ==
  /\ Start(t)
  /\ userId = NoUser => readOk
  /\ ret' = [ret EXCEPT ![t] =
       [op |-> "checkUsageStatus", userId |-> userId, readFailed |-> ~readOk,
        since |-> anonSince,
        status |-> checkUsageStatus(userId, cookie, userUsage, today, readOk)]]
  /\ UNCHANGED <<cookie, userUsage, today, pc, call, recorded, anonSince>>
  /\ UNCHANGED <<textVars, appVars, uiVars>>

\* recordSearch() with no userId: incrementAnonymousSearchCount, synchronous.
RecordSearchAnon(t) ==
  /\ Start(t)
  /\ cookie' = incrementAnonymousSearchCount(cookie)
  /\ ret' = [ret EXCEPT ![t] =
       [op |-> "recordSearch", userId |-> NoUser, threw |-> FALSE]]
  /\ anonSince' = IF anonSince < 0 THEN anonSince ELSE anonSince + 1
  /\ UNCHANGED <<userUsage, today, pc, call, recorded>>
  /\ UNCHANGED <<textVars, appVars, uiVars>>

\* recordSearch(userId) up to the first await of incrementDailySearchCount:
\* the document reference is fixed and getDoc resolves or rejects.
RecordSearchRead(t, userId, readOk) ==
  /\ Start(t)
  /\ userId \in Users
  /\ LET ref == getUserUsageDoc(userId, today)
     IN  IF readOk
         THEN /\ pc' = [pc EXCEPT ![t] = "inc_write"]
              /\ call' = [call EXCEPT ![t] =
                   [userId |-> userId, ref |-> ref, snap |-> userUsage[ref]]]
              /\ ret' = ret
         ELSE /\ ret' = [ret EXCEPT ![t] =
                   [op |-> "recordSearch", userId |-> userId, threw |-> TRUE]]
              /\ UNCHANGED <<pc, call>>
  /\ UNCHANGED <<cookie, userUsage, today, recorded, anonSince>>
  /\ UNCHANGED <<textVars, appVars, uiVars>>

\* updateDoc(ref, {searchCount: increment(1)}): the store adds 1 atomically.
updateDoc(store, ref) ==
  [store EXCEPT ![ref] = [exists |-> TRUE, searchCount |-> @.searchCount + 1]]

\* setDoc(ref, {searchCount: 1, ...}): the store overwrites the document.
setDoc(store, ref) ==
  [store EXCEPT ![ref] = [exists |-> TRUE, searchCount |-> 1]]

\* The write incrementDailySearchCount chooses from its earlier snapshot.
incrementWrite(store, ref, snap) ==
  IF snap.exists THEN updateDoc(store, ref) ELSE setDoc(store, ref)

\* The rest of incrementDailySearchCount: the write resolves or rejects.
RecordSearchWrite(t, writeOk) ==
  /\ pc[t] = "inc_write"
  /\ pc' = [pc EXCEPT ![t] = "idle"]
  /\ call' = [call EXCEPT ![t] = NoCall]
  /\ IF writeOk
     THEN /\ userUsage' = incrementWrite(userUsage, call[t].ref, call[t].snap)
          /\ recorded' = [recorded EXCEPT ![call[t].ref] = @ + 1]
          /\ ret' = [ret EXCEPT ![t] =
               [op |-> "recordSearch", userId |-> call[t].userId, threw |-> FALSE]]
     ELSE /\ ret' = [ret EXCEPT ![t] =
               [op |-> "recordSearch", userId |-> call[t].userId, threw |-> TRUE]]
          /\ UNCHANGED <<userUsage, recorded>>
  /\ UNCHANGED <<cookie, today, calls, anonSince>>
  /\ UNCHANGED <<textVars, appVars, uiVars>>

\* A reset that writes the cookie back instead of expiring it.
ResetAnonymousUsage_KeepsCookie(t) ==
  /\ Start(t)
  /\ cookie' = cookie
  /\ anonSince' = 0
  /\ ret' = [ret EXCEPT ![t] =
       [op |-> "resetAnonymousUsage", before |-> getAnonymousSearchCount(cookie)]]
  /\ UNCHANGED <<userUsage, today, pc, call, recorded>>
  /\ UNCHANGED <<textVars, appVars, uiVars>>

\* resetAnonymousUsage: the cookie is expired, so the browser drops it.
\* before: the count the call found (history).
ResetAnonymousUsage(t) ==
  /\ Start(t)
  /\ cookie' = NoCookie
  /\ anonSince' = 0
  /\ ret' = [ret EXCEPT ![t] =
       [op |-> "resetAnonymousUsage", before |-> getAnonymousSearchCount(cookie)]]
  /\ UNCHANGED <<userUsage, today, pc, call, recorded>>
  /\ UNCHANGED <<textVars, appVars, uiVars>>

\* A later date begins (UTC): new Date().toISOString() starts with it.  The
\* days of the model are the dates on which something happens, in order.
AdvanceDay ==
  /\ today < MaxDay
  /\ today' = today + 1
  /\ UNCHANGED <<cookie, userUsage, pc, call, ret, calls, recorded, anonSince>>
  /\ UNCHANGED <<textVars, appVars, uiVars>>

\* setCookie gives the cookie a lifetime of `days` days (30, the default, for
\* the counter) from its last write; when it has run out, on a later date,
\* the browser drops the cookie.
CookieExpires ==
  /\ cookie # NoCookie
  /\ today < MaxDay
  /\ today' = today + 1
  /\ cookie' = NoCookie
  /\ anonSince' = 0
  /\ UNCHANGED <<userUsage, pc, call, ret, calls, recorded>>
  /\ UNCHANGED <<textVars, appVars, uiVars>>

Next ==
  \/ \E t \in Tabs, u \in Users \cup {NoUser}, ok \in BOOLEAN :
       CheckUsageStatus(t, u, ok)
  \/ \E t \in Tabs : RecordSearchAnon(t)
  \/ \E t \in Tabs, u \in Users, ok \in BOOLEAN : RecordSearchRead(t, u, ok)
  \/ \E t \in Tabs, ok \in BOOLEAN : RecordSearchWrite(t, ok)
  \/ \E t \in Tabs : ResetAnonymousUsage(t)
  \/ AdvanceDay
  \/ CookieExpires

Spec == Init /\ [][Next]_vars

\* ------------------------------------------------------------ gate claims

Returned(t, op) == ret[t].op = op

\* C1: a checkUsageStatus() with no user id made after ANONYMOUS_SEARCH_LIMIT
\* or more recordSearch() calls that started from an absent cookie returns
\* canSearch = FALSE and requiresSignIn = TRUE; made before any such call it
\* returns canSearch = TRUE.
C1_AnonymousGate ==
  \A t \in Tabs :
    Returned(t, "checkUsageStatus") /\ ret[t].userId = NoUser =>
      /\ ret[t].since >= ANONYMOUS_SEARCH_LIMIT =>
           ~ret[t].status.canSearch /\ ret[t].status.requiresSignIn
      /\ ret[t].since = 0 => ret[t].status.canSearch

C1_Witness ==
  \E t \in Tabs :
    /\ Returned(t, "checkUsageStatus") /\ ret[t].userId = NoUser
    /\ ret[t].since = ANONYMOUS_SEARCH_LIMIT
    /\ ret[t].status.searchCount = ANONYMOUS_SEARCH_LIMIT
    /\ ~ret[t].status.canSearch

\* C2: every status checkUsageStatus(userId) returns for an authenticated user
\* has canSearch = TRUE, isAuthenticated = TRUE and requiresSignIn = FALSE,
\* whatever the number of searches already recorded that day.
C2_AuthenticatedUnlimited ==
  \A t \in Tabs :
    Returned(t, "checkUsageStatus") /\ ret[t].userId \in Users =>
      /\ ret[t].status.canSearch
      /\ ret[t].status.isAuthenticated
      /\ ~ret[t].status.requiresSignIn

C2_Witness ==
  \E t \in Tabs :
    /\ Returned(t, "checkUsageStatus") /\ ret[t].userId \in Users
    /\ ret[t].status.searchCount > ANONYMOUS_SEARCH_LIMIT
    /\ ret[t].status.canSearch

\* C3: a checkUsageStatus(userId) whose store read failed does not return a
\* status with canSearch = TRUE.
C3_FailClosed ==
  \A t \in Tabs :
    Returned(t, "checkUsageStatus") /\ ret[t].readFailed =>
      ~ret[t].status.canSearch

\* C4: once no recordSearch(userId) is in flight, the stored searchCount of
\* every (user, day) is the number of recordSearch calls that completed for
\* it (the counters start absent): no update is lost.
C4_NoLostUpdate ==
  (\A t \in Tabs : pc[t] = "idle") =>
    \A d \in DocIds : userUsage[d].searchCount = recorded[d]

\* ======================================================================
\* Summary post-processing (src/src/App.tsx).  A text is a sequence of
\* one-character strings.
\*
\* SpecClean   texts put together from title lines, filler and line breaks,
\*             no links.
\* SpecLinks   short texts over a small alphabet, and link mappings of up to
\*             two terms.
\* In both, one of three calls is made on the input: cleanSummaryText (and
\* then once more on its result), enhanceTextWithLinks, or the two composed
\* as the summary is rendered.
\* ======================================================================

\* ------------------------------------------------------------------ bounds

\* Pieces a summary text of SpecClean is put together from.
MaxPieces == 3
\* Characters of a summary text of SpecLinks.
MaxTextLen == 3
\* Candidates of one term, where the candidates vary.
MaxLinks == 2

\* -------------------------------------------------------------- characters

UpperCase == <<"A", "B", "C", "D", "E", "F", "G", "H", "I", "J", "K", "L", "M",
               "N", "O", "P", "Q", "R", "S", "T", "U", "V", "W", "X", "Y", "Z">>
LowerCase == <<"a", "b", "c", "d", "e", "f", "g", "h", "i", "j", "k", "l", "m",
               "n", "o", "p", "q", "r", "s", "t", "u", "v", "w", "x", "y", "z">>

UpperSet == {UpperCase[i] : i \in 1 .. 26}
LowerSet == {LowerCase[i] : i \in 1 .. 26}
DigitSet == {Digits[i] : i \in 1 .. 10}
LowerOf == [c \in UpperSet |-> LowerCase[CHOOSE i \in 1 .. 26 : UpperCase[i] = c]]

\* String.prototype.toLowerCase on one (ASCII) character; it is also how the
\* i flag compares two characters.
ToLowerChar(c) == IF c \in UpperSet THEN LowerOf[c] ELSE c

ToLowerCase(s) == [i \in 1 .. Len(s) |-> ToLowerChar(s[i])]

\* \s of a regular expression, and what trim() removes.
IsSpace(c) == c \in {" ", "\n", "\t", "\r"}
\* What the dot of a regular expression does not match.
IsLineTerminator(c) == c \in {"\n", "\r"}
\* [a-zA-Z0-9]
IsAlnum(c) == c \in UpperSet \/ c \in LowerSet \/ c \in DigitSet
\* \w, which decides \b
IsWordChar(c) == IsAlnum(c) \/ c = "_"

\* s.substring(from - 1): the text from position `from` (1-based) on.
Suffix(s, from) == SubSeq(s, from, Len(s))

\* Whether `lit` stands in s at position p, compared as the i flag compares.
MatchesAtCI(s, p, lit) ==
  /\ p + Len(lit) - 1 <= Len(s)
  /\ \A i \in 1 .. Len(lit) : ToLowerChar(s[p + i - 1]) = ToLowerChar(lit[i])

\* ---------------------------------------------------------- cleanSummaryText

RedditDataAnalysis == <<"R", "e", "d", "d", "i", "t", " ", "D", "a", "t", "a", " ",
                        "A", "n", "a", "l", "y", "s", "i", "s">>
AnalysisOf == <<"A", "n", "a", "l", "y", "s", "i", "s", " ", "o", "f">>
SummaryOf == <<"S", "u", "m", "m", "a", "r", "y", " ", "o", "f">>
RedditDiscussion == <<"R", "e", "d", "d", "i", "t", " ", "D", "i", "s", "c", "u", "s",
                      "s", "i", "o", "n">>
Analysis == <<"A", "n", "a", "l", "y", "s", "i", "s">>
Hash1 == <<"#", " ">>
Hash2 == <<"#", "#", " ">>

\* /^<start>.*?(\n\n|\n)/i  or, with a second literal,
\* /^<start>.*?<then>.*?(\n\n|\n)/i
TitlePattern(start, then) == [start |-> start, then |-> then]

\* titlePatterns, in the order forEach applies them.
titlePatterns ==
  << TitlePattern(Hash1 \o RedditDataAnalysis, <<>>),
     TitlePattern(Hash1 \o AnalysisOf, <<>>),
     TitlePattern(Hash1 \o SummaryOf, <<>>),
     TitlePattern(Hash1 \o RedditDiscussion, <<>>),
     TitlePattern(Hash1, Analysis),
     TitlePattern(Hash2 \o RedditDataAnalysis, <<>>),
     TitlePattern(Hash2 \o AnalysisOf, <<>>),
     TitlePattern(Hash2 \o SummaryOf, <<>>),
     TitlePattern(Hash2 \o RedditDiscussion, <<>>),
     TitlePattern(Hash2, Analysis),
     TitlePattern(RedditDataAnalysis, <<>>),
     TitlePattern(AnalysisOf, <<>>),
     TitlePattern(SummaryOf, <<>>),
     TitlePattern(RedditDiscussion, <<>>) >>

\* Where the lazy  .*?  followed by  (\n\n|\n)  stops when it starts at
\* position p: the position of the first line terminator from p on, provided
\* that terminator is a line feed (the dot matches no terminator); 0 if none.
LineFeedFrom(s, p) ==
  LET T == {i \in p .. Len(s) : IsLineTerminator(s[i])}
  IN  IF T = {} THEN 0
      ELSE LET e == CHOOSE i \in T : \A j \in T : i <= j
           IN  IF s[e] = "\n" THEN e ELSE 0

\* A title pattern that ends with a single \n instead of (\n\n|\n).
TitleMatch_SingleLineFeed(s, pat) ==
  LET n  == Len(pat.start)
      e  == LineFeedFrom(s, n + 1)
      ok == /\ MatchesAtCI(s, 1, pat.start)
            /\ e > 0
            /\ \/ pat.then = <<>>
               \/ \E q \in n + 1 .. e - Len(pat.then) : MatchesAtCI(s, q, pat.then)
  IN  IF ok THEN e ELSE 0

\* The length of the match of a title pattern at the start of s; 0 if none.
\* The match ends with the line feed that ends the first line, and with the
\* one after it when there is one (\n\n is tried first).
TitleMatch(s, pat) ==
  LET n  == Len(pat.start)
      e  == LineFeedFrom(s, n + 1)
      ok == /\ MatchesAtCI(s, 1, pat.start)
            /\ e > 0
            /\ \/ pat.then = <<>>
               \/ \E q \in n + 1 .. e - Len(pat.then) : MatchesAtCI(s, q, pat.then)
  IN  IF ~ok THEN 0
      ELSE IF e < Len(s) /\ s[e + 1] = "\n" THEN e + 1 ELSE e

\* cleanedText.replace(pattern, '')
StripTitle(s, pat) == Suffix(s, TitleMatch(s, pat) + 1)

RECURSIVE StripTitles(_, _)
\* titlePatterns.forEach from pattern i on.
StripTitles(s, i) ==
  IF i > Len(titlePatterns) THEN s
  ELSE StripTitles(StripTitle(s, titlePatterns[i]), i + 1)

\* String.prototype.trim
Trim(s) ==
  LET K == {i \in 1 .. Len(s) : ~IsSpace(s[i])}
  IN  IF K = {} THEN <<>>
      ELSE SubSeq(s, CHOOSE i \in K : \A j \in K : i <= j,
                     CHOOSE i \in K : \A j \in K : i >= j)

cleanSummaryText(s) == Trim(StripTitles(s, 1))

\* ------------------------------------------------------ enhanceTextWithLinks

\* A link candidate: its url and its relevance_score, <<n>> or <<>> when the
\* field is missing.
Link(url, score) == [url |-> url, relevance_score |-> score]
\* An entry of Object.entries(enhancedLinks).
Entry(term, links) == [term |-> term, links |-> links]

\* (link.relevance_score || 0)
ScoreOrZero(link) ==
  IF link.relevance_score = <<>> THEN 0 ELSE link.relevance_score[1]

\* The reducer that keeps the later of two equally relevant candidates.
KeepBetter_LastOfTies(best, current) ==
  IF ScoreOrZero(current) >= ScoreOrZero(best) THEN current ELSE best

\* The reducer of links.reduce: current replaces best only when it is
\* strictly more relevant.
KeepBetter(best, current) ==
  IF ScoreOrZero(current) > ScoreOrZero(best) THEN current ELSE best

RECURSIVE ReduceLinks(_, _, _)
ReduceLinks(links, i, best) ==
  IF i > Len(links) THEN best
  ELSE ReduceLinks(links, i + 1, KeepBetter(best, links[i]))

\* links.reduce(..., links[0]) of a non-empty list.
bestLink(links) == ReduceLinks(links, 1, links[1])

\* The atoms of a pattern: a literal character, the dot, or \s+.
Lit(c) == [k |-> "lit", c |-> c]
AnyChar == [k |-> "any", c |-> "."]
Spaces == [k |-> "ws", c |-> " "]

\* How new RegExp reads one character of an interpolated term.  The terms of
\* this model are made of letters, digits, spaces, dots and opening
\* parentheses; a term with a parenthesis has no pattern (PatternSyntaxError),
\* and of the other characters only the dot is a pattern metacharacter.
AtomOf(c) == IF c = "." THEN AnyChar ELSE Lit(c)
Atoms(src) == [i \in 1 .. Len(src) |-> AtomOf(src[i])]

\* termVariations: the term, the term in lower case, the term without the
\* characters of [^a-zA-Z0-9\s], and the term with \s+ for each space.
termVariations(term) ==
  << Atoms(term),
     Atoms(ToLowerCase(term)),
     Atoms(SelectSeq(term, LAMBDA c : IsAlnum(c) \/ IsSpace(c))),
     [i \in 1 .. Len(term) |-> IF term[i] = " " THEN Spaces ELSE AtomOf(term[i])] >>

\* new RegExp(`\\b(${termVariations.join('|')})\\b`, 'gi') throws a SyntaxError
\* when the source is no pattern.  The term is interpolated as it is, so a
\* "(" or "[" in it opens a group or a class; nothing in these terms closes
\* one, and the pattern is unterminated.
PatternSyntaxError(term) ==
  \E v \in {term, ToLowerCase(term)} : \E i \in DOMAIN v : v[i] \in {"(", "["}

\* Whether enhanceTextWithLinks throws: the forEach reaches an entry with
\* candidates whose pattern cannot be built.
enhanceThrows(entries) ==
  \E i \in DOMAIN entries :
    Len(entries[i].links) > 0 /\ PatternSyntaxError(entries[i].term)

\* \b at position p of s: between s[p - 1] and s[p], exactly one is a word
\* character (outside the text counts as none).
WordAt(s, p) == p >= 1 /\ p <= Len(s) /\ IsWordChar(s[p])
WordBoundary(s, p) == WordAt(s, p - 1) # WordAt(s, p)

\* The number of whitespace characters of s from position p on.
SpaceRun(s, p) ==
  LET N == {n \in 0 .. Len(s) - p + 1 : \A i \in p .. p + n - 1 : IsSpace(s[i])}
  IN  CHOOSE n \in N : \A m \in N : m <= n

RECURSIVE MatchEnds(_, _, _, _), SpacesEnds(_, _, _, _, _)
\* The positions at which atoms i.. can end when they start at position p of
\* s, in the order a backtracking matcher tries them.
MatchEnds(atoms, i, s, p) ==
  IF i > Len(atoms) THEN <<p>>
  ELSE LET a == atoms[i]
       IN  CASE a.k = "lit" ->
                  IF p <= Len(s) /\ ToLowerChar(s[p]) = ToLowerChar(a.c)
                  THEN MatchEnds(atoms, i + 1, s, p + 1) ELSE <<>>
             [] a.k = "any" ->
                  IF p <= Len(s) /\ ~IsLineTerminator(s[p])
                  THEN MatchEnds(atoms, i + 1, s, p + 1) ELSE <<>>
             [] a.k = "ws" -> SpacesEnds(atoms, i, s, p, SpaceRun(s, p))
\* \s+ is greedy: the longest run first, then shorter ones, never none.
SpacesEnds(atoms, i, s, p, n) ==
  IF n = 0 THEN <<>>
  ELSE MatchEnds(atoms, i + 1, s, p + n) \o SpacesEnds(atoms, i, s, p, n - 1)

\* The first of `ends` that satisfies the closing \b; 0 if none.
FirstBounded(s, ends) ==
  LET K == {k \in 1 .. Len(ends) : WordBoundary(s, ends[k])}
  IN  IF K = {} THEN 0 ELSE ends[CHOOSE k \in K : \A j \in K : k <= j]

RECURSIVE AltEnd(_, _, _, _)
\* (v1|v2|v3|v4)\b from alternative j on, at position p: where the match
\* ends; 0 if no alternative matches.
AltEnd(alts, j, s, p) ==
  IF j > Len(alts) THEN 0
  ELSE LET e == FirstBounded(s, MatchEnds(alts[j], 1, s, p))
       IN  IF e # 0 THEN e ELSE AltEnd(alts, j + 1, s, p)

\* The whole pattern \b(v1|v2|v3|v4)\b at position p: where the match ends
\* (p itself for an empty match); 0 if it does not match there.
MatchAt(alts, s, p) == IF WordBoundary(s, p) THEN AltEnd(alts, 1, s, p) ELSE 0

RECURSIVE NextMatch(_, _, _)
\* pattern.exec from lastIndex = from - 1: where the next match starts; 0 if
\* there is none.
NextMatch(alts, s, from) ==
  IF from > Len(s) + 1 THEN 0
  ELSE IF MatchAt(alts, s, from) # 0 THEN from
  ELSE NextMatch(alts, s, from + 1)

\* [${match}](${bestLink.url})
MarkdownLink(match, url) == <<"[">> \o match \o <<"]", "(">> \o url \o <<")">>

\* A callback that forgets hasReplaced and links every match.
Replacement_EveryMatch(match, url, hasReplaced) == MarkdownLink(match, url)

\* The callback of replace: the first match becomes a link, later ones stay.
Replacement(match, url, hasReplaced) ==
  IF ~hasReplaced THEN MarkdownLink(match, url) ELSE match

RECURSIVE ReplaceFrom(_, _, _, _, _)
\* enhancedText.replace(pattern, callback) with the g flag, from position
\* `from` on: every match is handed to the callback; after an empty match
\* the search resumes one character further.
ReplaceFrom(alts, s, url, from, hasReplaced) ==
  LET p == NextMatch(alts, s, from)
  IN  IF p = 0 THEN Suffix(s, from)
      ELSE LET e == MatchAt(alts, s, p)
           IN  SubSeq(s, from, p - 1)
               \o Replacement(SubSeq(s, p, e - 1), url, hasReplaced)
               \o IF e > p THEN ReplaceFrom(alts, s, url, e, TRUE)
                  ELSE IF p > Len(s) THEN <<>>
                  ELSE <<s[p]>> \o ReplaceFrom(alts, s, url, p + 1, TRUE)

\* A callback body that does not skip an entry without candidates and links
\* its term to an empty url.
EnhanceEntry_NoSkip(s, entry) ==
  ReplaceFrom(termVariations(entry.term), s,
              IF Len(entry.links) > 0 THEN bestLink(entry.links).url ELSE <<>>,
              1, FALSE)

\* The body of the forEach callback for one (term, links) entry.
EnhanceEntry(s, entry) ==
  IF Len(entry.links) > 0
  THEN ReplaceFrom(termVariations(entry.term), s, bestLink(entry.links).url,
                   1, FALSE)
  ELSE s

RECURSIVE EnhanceFrom(_, _, _)
EnhanceFrom(s, entries, i) ==
  IF i > Len(entries) THEN s
  ELSE EnhanceFrom(EnhanceEntry(s, entries[i]), entries, i + 1)

\* enhanceTextWithLinks(text) with enhancedLinks = entries
enhanceTextWithLinks(s, entries) ==
  IF Len(entries) = 0 THEN s ELSE EnhanceFrom(s, entries, 1)

\* ------------------------------------------------- history of one enhancement

\* Where an inserted link [label](url) lies: positions s .. e - 1.
\* After a link is put around positions from .. to - 1, which adds
\* `added` characters, an earlier link lies here:
ShiftSpan(sp, from, to, added) ==
  [s |-> IF sp.s >= to THEN sp.s + added ELSE sp.s,
   e |-> IF sp.e > from THEN sp.e + added ELSE sp.e]

RECURSIVE EnhanceTrace(_, _, _, _)
\* Per entry from i on: the text before and after it, the first match of its
\* pattern in the text before (from = 0 if none or if the entry has no
\* links), and the links inserted for earlier entries.
EnhanceTrace(s, entries, i, spans) ==
  IF i > Len(entries) THEN <<>>
  ELSE LET en    == entries[i]
           alts  == termVariations(en.term)
           from  == IF Len(en.links) > 0 THEN NextMatch(alts, s, 1) ELSE 0
           to    == IF from = 0 THEN 0 ELSE MatchAt(alts, s, from)
           after == EnhanceEntry(s, en)
           added == IF from = 0 THEN 0 ELSE Len(bestLink(en.links).url) + 4
           now   == IF from = 0 THEN spans
                    ELSE {ShiftSpan(sp, from, to, added) : sp \in spans}
                         \cup {[s |-> from, e |-> to + added]}
       IN  << [term |-> en.term, links |-> en.links, before |-> s,
               after |-> after, from |-> from, to |-> to, spans |-> spans] >>
           \o EnhanceTrace(after, entries, i + 1, now)

\* ------------------------------------------------------------------ inputs

LineFeed == <<"\n">>
\* The pieces of SpecClean's texts: three title lines, an unfinished title,
\* body text, a line break and a blank.
CleanPieces ==
  { Hash1 \o SummaryOf \o LineFeed,
    ToLowerCase(SummaryOf) \o LineFeed,
    Hash1 \o RedditDataAnalysis \o LineFeed,
    AnalysisOf,
    <<"x">>, LineFeed, <<" ">> }

RECURSIVE Concatenations(_, _)
\* The texts made of at most n pieces of P.
Concatenations(P, n) ==
  IF n = 0 THEN {<<>>}
  ELSE LET T == Concatenations(P, n - 1)
       IN  T \cup {t \o q : t \in T, q \in P}

CleanTexts == Concatenations(CleanPieces, MaxPieces)

TextChars == {"a", "A", " ", "."}
LinkTexts == Concatenations({<<c>> : c \in TextChars}, MaxTextLen)

\* The terms of SpecLinks: the empty term, a word in either case, a word
\* that contains it, two words, a term with a dot and one with a parenthesis.
Terms == { <<>>, <<"a">>, <<"A">>, <<"a", "a">>, <<"a", " ", "a">>,
           <<"a", ".", "a">>, <<"a", "(">> }

\* The url of the i-th candidate of a term.
UrlOf(i) == <<"u", Digits[i + 1]>>
\* relevance_score: missing, 0, 0.4, 0.9 (in tenths).
Scores == {<<>>, <<0>>, <<4>>, <<9>>}

\* The candidate lists of 1 .. MaxLinks candidates, scores varying.
LinkLists ==
  UNION { { [i \in 1 .. n |-> Link(UrlOf(i), sc[i])] : sc \in [1 .. n -> Scores] }
          : n \in 1 .. MaxLinks }

OneLink == << Link(UrlOf(1), <<>>) >>

\* The mappings of SpecLinks: none; one term with no or one candidate; the
\* term "a" with every candidate list; two different terms, one candidate
\* each.
Mappings ==
  {<<>>}
  \cup { <<Entry(t, ls)>> : t \in Terms, ls \in {<<>>, OneLink} }
  \cup { <<Entry(<<"a">>, ls)>> : ls \in LinkLists }
  \cup { <<Entry(tt[1], OneLink), Entry(tt[2], OneLink)>> :
           tt \in {uu \in Terms \X Terms : uu[1] # uu[2]} }

\* ----------------------------------------------------------------- actions

GateIdle ==
  /\ cookie = NoCookie
  /\ userUsage = [d \in DocIds |-> NoDoc]
  /\ today = 0
  /\ pc = [t \in Tabs |-> "idle"]
  /\ call = [t \in Tabs |-> NoCall]
  /\ ret = [t \in Tabs |-> NoRet]
  /\ calls = 0
  /\ recorded = [d \in DocIds |-> 0]
  /\ anonSince = 0

InitText(texts, mappings) ==
  /\ GateIdle
  /\ searchResults \in texts
  /\ enhancedLinks \in mappings
  /\ phase = "input"
  /\ out = <<>>
  /\ trace = <<>>
  /\ app = AppStart(FALSE)
  /\ access = NoAccess
  /\ UiIdle

InitClean == InitText(CleanTexts, {<<>>})
InitLinks == InitText(LinkTexts, Mappings)

\* cleanSummaryText(searchResults), and then cleanSummaryText of its result.
CleanSummaryText ==
  /\ phase \in {"input", "cleaned"}
  /\ out' = cleanSummaryText(IF phase = "input" THEN searchResults ELSE out)
  /\ phase' = IF phase = "input" THEN "cleaned" ELSE "cleanedTwice"
  /\ UNCHANGED <<searchResults, enhancedLinks, trace>>
  /\ UNCHANGED <<gateVars, appVars, uiVars>>

\* What a call enhanceTextWithLinks(text) leaves: the text it returns, or
\* phase "threw" when it throws.
Enhance(text, done) ==
  IF enhanceThrows(enhancedLinks)
  THEN /\ phase' = "threw"
       /\ UNCHANGED <<out, trace>>
  ELSE /\ phase' = done
       /\ out' = enhanceTextWithLinks(text, enhancedLinks)
       /\ trace' = EnhanceTrace(text, enhancedLinks, 1, {})

\* enhanceTextWithLinks(searchResults)
EnhanceTextWithLinks ==
  /\ phase = "input"
  /\ Enhance(searchResults, "enhanced")
  /\ UNCHANGED <<searchResults, enhancedLinks>>
  /\ UNCHANGED <<gateVars, appVars, uiVars>>

\* The summary as rendered: enhanceTextWithLinks(cleanSummaryText(searchResults))
RenderSummary ==
  /\ phase = "input"
  /\ Enhance(cleanSummaryText(searchResults), "rendered")
  /\ UNCHANGED <<searchResults, enhancedLinks>>
  /\ UNCHANGED <<gateVars, appVars, uiVars>>

NextText ==
  \/ CleanSummaryText
  \/ EnhanceTextWithLinks
  \/ RenderSummary

SpecClean == InitClean /\ [][NextText]_vars
SpecLinks == InitLinks /\ [][NextText]_vars

\* ------------------------------------------------------------ text claims

\* The text s with positions from .. to - 1 turned into a link to url.
Wrapped(s, from, to, url) ==
  SubSeq(s, 1, from - 1) \o <<"[">> \o SubSeq(s, from, to - 1)
    \o <<"]", "(">> \o url \o <<")">> \o Suffix(s, to)

RECURSIVE SpacedEqual(_, _, _, _)
\* Whether sub, from position i on, is the term from position j on, compared
\* without case and with any run of whitespace for each space of the term.
SpacedEqual(sub, i, term, j) ==
  IF j > Len(term) THEN i > Len(sub)
  ELSE IF term[j] = " "
       THEN \E n \in 1 .. SpaceRun(sub, i) : SpacedEqual(sub, i + n, term, j + 1)
       ELSE /\ i <= Len(sub)
            /\ ToLowerChar(sub[i]) = ToLowerChar(term[j])
            /\ SpacedEqual(sub, i + 1, term, j + 1)

\* Positions p .. q - 1 of s hold a word-bounded occurrence of the term: the
\* term itself, the term without its punctuation, or the term with other
\* whitespace between its words, in any case.
Occurrence(s, p, q, term) ==
  LET sub == SubSeq(s, p, q - 1)
  IN  /\ WordBoundary(s, p)
      /\ WordBoundary(s, q)
      /\ \/ ToLowerCase(sub) = ToLowerCase(term)
         \/ ToLowerCase(sub) =
              ToLowerCase(SelectSeq(term, LAMBDA c : IsAlnum(c) \/ IsSpace(c)))
         \/ SpacedEqual(sub, 1, term, 1)

Occurrences(s, term) ==
  {o \in (1 .. Len(s) + 1) \X (1 .. Len(s) + 1) :
     o[1] <= o[2] /\ Occurrence(s, o[1], o[2], term)}

Enhanced == phase \in {"enhanced", "rendered"}

\* C5: for every entry with candidates, the text after the entry is the text
\* before it with its first occurrence of the term turned into
\* [occurrence](url), url being one of the term's candidates, and nothing
\* else changed; without an occurrence the text stays as it was.
C5_FirstOccurrenceOnly ==
  Enhanced =>
    \A k \in DOMAIN trace :
      LET st  == trace[k]
          Occ == Occurrences(st.before, st.term)
      IN  Len(st.links) > 0 =>
            IF Occ = {} THEN st.after = st.before
            ELSE \E o \in Occ :
                   /\ \A o2 \in Occ : o[1] <= o2[1]
                   /\ \E i \in DOMAIN st.links :
                        st.after = Wrapped(st.before, o[1], o[2], st.links[i].url)

\* The candidate the claim names: the first one of maximal score.
MostRelevant(links) ==
  links[CHOOSE i \in DOMAIN links :
          /\ \A j \in DOMAIN links : ScoreOrZero(links[j]) <= ScoreOrZero(links[i])
          /\ \A j \in 1 .. i - 1 : ScoreOrZero(links[j]) < ScoreOrZero(links[i])]

\* C6: the url of the link inserted for a term is that of its candidate of
\* maximal relevance_score (a missing score counting as 0), the first-listed
\* one among equals.
C6_HighestRelevance ==
  Enhanced =>
    \A k \in DOMAIN trace :
      LET st == trace[k]
      IN  st.from # 0 =>
            st.after = Wrapped(st.before, st.from, st.to, MostRelevant(st.links).url)

C6_Witness ==
  /\ phase = "enhanced"
  /\ Len(trace) = 1
  /\ trace[1].from # 0
  /\ Len(trace[1].links) = 2
  /\ ScoreOrZero(trace[1].links[1]) < ScoreOrZero(trace[1].links[2])
  /\ out = Wrapped(searchResults, trace[1].from, trace[1].to, UrlOf(2))

\* C7: cleanSummaryText applied to its own result returns that result.
C7_Idempotent ==
  phase = "cleanedTwice" => out = cleanSummaryText(searchResults)

\* Whether a line is one that pattern number i removes.
LineIsTitle(line, i) ==
  LET pat == titlePatterns[i]
  IN  /\ MatchesAtCI(line, 1, pat.start)
      /\ \/ pat.then = <<>>
         \/ \E q \in Len(pat.start) + 1 .. Len(line) :
              MatchesAtCI(line, q, pat.then)

\* The first line of s (without its line feed) when s has one and a line
\* feed is the line's first terminator.
HasFirstLine(s) == LineFeedFrom(s, 1) # 0
FirstLine(s) == SubSeq(s, 1, LineFeedFrom(s, 1) - 1)
\* s without its first line, and without the line feed that follows it.
AfterFirstLine(s) ==
  LET e == LineFeedFrom(s, 1)
  IN  Suffix(s, IF e < Len(s) /\ s[e + 1] = "\n" THEN e + 2 ELSE e + 1)

\* C8 as claimed: cleanSummaryText removes nothing, or exactly the first line
\* when that line matches a title pattern; whatever follows is kept (up to
\* the final trim).
C8_AtMostOneLine ==
  phase = "cleaned" =>
    \/ out = Trim(searchResults)
    \/ /\ HasFirstLine(searchResults)
       /\ \E i \in DOMAIN titlePatterns : LineIsTitle(FirstLine(searchResults), i)
       /\ out = Trim(AfterFirstLine(searchResults))

RECURSIVE WithoutLeadingTitles(_, _)
\* s without its leading title lines, each removed by the first pattern
\* listed after index `last` that matches it.
WithoutLeadingTitles(s, last) ==
  IF ~HasFirstLine(s) THEN s
  ELSE LET J == {i \in last + 1 .. Len(titlePatterns) : LineIsTitle(FirstLine(s), i)}
       IN  IF J = {} THEN s
           ELSE WithoutLeadingTitles(AfterFirstLine(s),
                                     CHOOSE i \in J : \A j \in J : i <= j)

\* C8, amended: cleanSummaryText removes at most one leading line per title
\* pattern: the first line when a pattern matches it, and then each next
\* leading line that a pattern listed after the previous line's pattern
\* matches; the rest is kept (up to the final trim).
C8_OneLinePerPattern ==
  phase = "cleaned" => out = Trim(WithoutLeadingTitles(searchResults, 0))

C8_Witness ==
  /\ phase = "cleaned"
  /\ searchResults =
       Hash1 \o SummaryOf \o LineFeed \o Hash1 \o RedditDataAnalysis \o LineFeed
         \o <<"x">>
  /\ out = <<"x">>

\* C9: the match of a (non-empty) term never overlaps a link inserted for an
\* earlier term of the mapping.
C9_NoLinkInsideLink ==
  Enhanced =>
    \A k \in DOMAIN trace :
      LET st == trace[k]
      IN  st.from # 0 /\ st.term # <<>> =>
            \A sp \in st.spans : ~(st.from < sp.e /\ st.to > sp.s)

\* C10: entries for the empty term change nothing: the result is that of the
\* mapping without them.
C10_EmptyTermIgnored ==
  phase = "enhanced" =>
    out = enhanceTextWithLinks(searchResults,
                               SelectSeq(enhancedLinks, LAMBDA en : en.term # <<>>))

\* C11: with no entry in the mapping enhanceTextWithLinks returns its input;
\* an entry without candidates leaves the text as it found it; and when no
\* entry has a candidate the rendered summary is cleanSummaryText of the
\* summary.
C11_NoOpWithoutLinks ==
  /\ phase = "enhanced" /\ enhancedLinks = <<>> => out = searchResults
  /\ Enhanced =>
       \A k \in DOMAIN trace :
         Len(trace[k].links) = 0 => trace[k].after = trace[k].before
  /\ phase = "rendered" /\ (\A k \in DOMAIN enhancedLinks :
                               Len(enhancedLinks[k].links) = 0)
       => out = cleanSummaryText(searchResults)

C11_Witness ==
  /\ phase = "rendered"
  /\ enhancedLinks = <<Entry(<<"a">>, <<>>)>>
  /\ searchResults = <<" ", "a">>
  /\ out = <<"a">>

\* C12: no call of enhanceTextWithLinks throws, whatever the terms of the
\* mapping.
C12_NeverThrows == phase # "threw"

\* ------------------------------------------------------ more gate claims

\* C14: every status checkUsageStatus returns has
\* requiresSignIn = (~isAuthenticated /\ ~canSearch) and
\* canSearch = (searchCount < limit), with or without a user id.
C14_StatusConsistent ==
  \A t \in Tabs :
    Returned(t, "checkUsageStatus") =>
      LET st == ret[t].status
      IN  /\ st.requiresSignIn = (~st.isAuthenticated /\ ~st.canSearch)
          /\ st.canSearch = LessThan(st.searchCount, st.limit)

C14_Witness ==
  \E t1, t2 \in Tabs :
    /\ Returned(t1, "checkUsageStatus") /\ ret[t1].userId = NoUser
    /\ ret[t1].status.requiresSignIn /\ ~ret[t1].status.canSearch
    /\ Returned(t2, "checkUsageStatus") /\ ret[t2].userId \in Users
    /\ ret[t2].status.searchCount >= 1 /\ ~ret[t2].status.requiresSignIn

\* The anonymous count of a state.
AnonymousCount == getAnonymousSearchCount(cookie)

\* C17 as claimed: every anonymous recordSearch() raises the anonymous count
\* by exactly 1, and every step that lowers the count is a
\* resetAnonymousUsage().
C17_OnlyResetLowers ==
  [][ /\ \A t \in Tabs : RecordSearchAnon(t) => AnonymousCount' = AnonymousCount + 1
      /\ AnonymousCount' < AnonymousCount => \E t \in Tabs : ResetAnonymousUsage(t)
    ]_vars

\* C17, amended: every anonymous recordSearch() raises the anonymous count by
\* exactly 1, whatever its value, and every step that lowers the count is a
\* resetAnonymousUsage() or the expiry of the cookie.
C17_CounterNotCapped ==
  [][ /\ \A t \in Tabs : RecordSearchAnon(t) => AnonymousCount' = AnonymousCount + 1
      /\ AnonymousCount' < AnonymousCount =>
            (\E t \in Tabs : ResetAnonymousUsage(t)) \/ CookieExpires
    ]_vars

C17_Witness ==
  /\ anonSince = ANONYMOUS_SEARCH_LIMIT + 1
  /\ AnonymousCount = ANONYMOUS_SEARCH_LIMIT + 1
  /\ \E t \in Tabs : Returned(t, "recordSearch") /\ ret[t].userId = NoUser

\* C18: in the state a resetAnonymousUsage() leaves, checkUsageStatus() with
\* no user id returns searchCount = 0, canSearch = TRUE and
\* requiresSignIn = FALSE, whatever the count was before.
C18_ResetReopens ==
  [][ (\E t \in Tabs : ResetAnonymousUsage(t)) =>
        LET st == checkUsageStatus(NoUser, cookie', userUsage', today', TRUE)
        IN  st.searchCount = 0 /\ st.canSearch /\ ~st.requiresSignIn
    ]_vars

C18_Witness ==
  \E t1, t2 \in Tabs :
    /\ Returned(t1, "resetAnonymousUsage")
    /\ ret[t1].before >= ANONYMOUS_SEARCH_LIMIT
    /\ Returned(t2, "checkUsageStatus") /\ ret[t2].userId = NoUser
    /\ ret[t2].since = 0
    /\ ret[t2].status.searchCount = 0 /\ ret[t2].status.canSearch
    /\ cookie = NoCookie

\* ======================================================================
\* Tiers and models (src/src/usageTracking.ts).
\*
\* SpecTiers   two tiers and a model are drawn, inside and outside the
\*             declared ones; getAvailableModels is called for both tiers
\*             and isModelAllowed for the model and the first tier.
\* ======================================================================

TextIdle ==
  /\ searchResults = <<>>
  /\ enhancedLinks = <<>>
  /\ phase = "none"
  /\ out = <<>>
  /\ trace = <<>>

InitTiers ==
  /\ GateIdle
  /\ TextIdle
  /\ app = AppStart(FALSE)
  /\ \E tier \in Tiers \cup {OtherTier}, other \in Tiers \cup {OtherTier},
        model \in Models \cup {OtherModel} :
        access = [NoAccess EXCEPT !.tier = tier, !.other = other, !.model = model]
  /\ UiIdle

\* getAvailableModels(tier) and getAvailableModels(other)
GetAvailableModels ==
  /\ "getAvailableModels" \notin access.op
  /\ access' = [access EXCEPT !.op = @ \cup {"getAvailableModels"},
                               !.models = getAvailableModels(access.tier),
                               !.otherModels = getAvailableModels(access.other)]
  /\ UNCHANGED <<gateVars, textVars, app, uiVars>>

\* isModelAllowed(model, tier)
IsModelAllowed ==
  /\ "isModelAllowed" \notin access.op
  /\ access' = [access EXCEPT !.op = @ \cup {"isModelAllowed"},
                               !.allowed = isModelAllowed(access.model, access.tier)]
  /\ UNCHANGED <<gateVars, textVars, app, uiVars>>

NextTiers ==
  \/ GetAvailableModels
  \/ IsModelAllowed

SpecTiers == InitTiers /\ [][NextTiers]_vars

\* The model values of a list.
ValuesOf(models) == {models[i].value : i \in DOMAIN models}

\* C13: the models listed for "free" are among those listed for "paid"; the
\* lists for "anonymous" and "free" are the same; isModelAllowed(m, tier)
\* is TRUE exactly when m is a value of getAvailableModels(tier), and FALSE
\* for every m when the tier is none of the three.
C13_TierMonotonic ==
  /\ "getAvailableModels" \in access.op =>
       /\ access.tier = "free" /\ access.other = "paid" =>
            ValuesOf(access.models) \subseteq ValuesOf(access.otherModels)
       /\ access.tier = "anonymous" /\ access.other = "free" =>
            access.models = access.otherModels
  /\ access.op = {"getAvailableModels", "isModelAllowed"} =>
       access.allowed = (access.model \in ValuesOf(access.models))
  /\ "isModelAllowed" \in access.op /\ access.tier \notin Tiers => ~access.allowed

C13_Witness ==
  /\ access.op = {"getAvailableModels", "isModelAllowed"}
  /\ access.tier = "free" /\ access.other = "paid"
  /\ access.model = GeminiPro
  /\ ~access.allowed
  /\ GeminiPro \in ValuesOf(access.otherModels)

\* ======================================================================
\* The app (src/src/App.tsx, AppContent; AuthProvider in src/src/Header.tsx).
\*
\* SpecApp   one tab: the component mounts, users sign in and out, the query
\*           is typed, and searches run from the gate to the history save,
\*           with every await a step that can succeed or fail; stored
\*           searches are shown from the sidebar and from the URL.  The tab
\*           is open within one date (Spec has the dates pass).
\* SpecAppLive  SpecApp with every awaited promise of handleSearch settled.
\* An effect that only continues in microtasks (updateUserTier, and
\* loadUsageStatus without a user id) is part of the step that triggers it.
\* ======================================================================

\* How many search requests one behaviour sends.
MaxSearches == 2
\* How many sign-ins and sign-outs one behaviour has.
MaxAuthChanges == 2

\* The messages setError is given.
ErrEmptyQuery == "Please enter a search query"
ErrPaidModel == "This model requires a paid subscription. Please upgrade your account."
ErrNoStatus == "Unable to check usage status. Please try again."
ErrDailyLimit == "Daily search limit reached. Try again tomorrow!"
\* err.message of what the try block can throw: fetch rejecting, the
\* non-OK response, response.json() rejecting, and a store call rejecting.
FailureKinds == {"network", "status", "body"}
ErrOf(kind) ==
  CASE kind = "network" -> "Failed to fetch"
    [] kind = "status" -> "Search failed: 500"
    [] kind = "body" -> "Unexpected end of JSON input"
    [] kind = "store" -> "Missing or insufficient permissions."

\* The queries typed: none, a blank, a word.
Queries == { <<>>, <<" ">>, <<"q">> }

\* data.summary || 'No results found'
NoResultsFound ==
  <<"N", "o", " ", "r", "e", "s", "u", "l", "t", "s", " ", "f", "o", "u", "n", "d">>
\* The response bodies of /api/search-summarize: no summary and no links, or
\* a summary with links for one term.
SearchData ==
  { [summary |-> <<>>, enhanced_links |-> <<>>],
    [summary |-> <<"a">>, enhanced_links |-> <<Entry(<<"a">>, OneLink)>>] }

\* A handleSearch that does not look at canSearch.
handleSearchOutcome_NoGate(a) ==
  IF Trim(a.searchQuery) = <<>> THEN "emptyQuery"
  ELSE IF a.usageStatus = NoStatus THEN "noStatus"
  ELSE "send"

\* A handleSearch that tests the query without trimming it.
handleSearchOutcome_NoTrim(a) ==
  IF a.searchQuery = <<>> THEN "emptyQuery"
  ELSE IF ~isModelAllowed(a.model, a.userTier) /\ a.userTier = "anonymous"
  THEN "signInForModel"
  ELSE IF ~isModelAllowed(a.model, a.userTier) /\ a.userTier = "free"
  THEN "paidModel"
  ELSE IF a.usageStatus = NoStatus THEN "noStatus"
  ELSE IF ~a.usageStatus[1].canSearch
  THEN IF ~a.usageStatus[1].isAuthenticated THEN "signIn" ELSE "dailyLimit"
  ELSE "send"

\* handleSearch up to its first await: which way it leaves.
handleSearchOutcome(a) ==
  IF Trim(a.searchQuery) = <<>> THEN "emptyQuery"
  ELSE IF ~isModelAllowed(a.model, a.userTier) /\ a.userTier = "anonymous"
  THEN "signInForModel"
  ELSE IF ~isModelAllowed(a.model, a.userTier) /\ a.userTier = "free"
  THEN "paidModel"
  ELSE IF a.usageStatus = NoStatus THEN "noStatus"
  ELSE IF ~a.usageStatus[1].canSearch
  THEN IF ~a.usageStatus[1].isAuthenticated THEN "signIn" ELSE "dailyLimit"
  ELSE "send"

\* A catch without the finally block.
Caught_StillLoading(a, kind) ==
  [a EXCEPT !.error = ErrOf(kind), !.pc = "idle", !.data = NoData]

\* catch (err) { setError(...) } finally { setIsLoading(false) }
Caught(a, kind) ==
  [a EXCEPT !.error = ErrOf(kind), !.isLoading = FALSE, !.pc = "idle",
            !.data = NoData]

\* An updateUserTier that sets the tier and the list and leaves the model.
updateUserTier_KeepsModel(a) ==
  LET tier   == getUserTier(a.user)
      models == getAvailableModels(tier)
  IN  [a EXCEPT !.userTier = tier, !.availableModels = models]

\* The effect on [user, model]: updateUserTier.
updateUserTier(a) ==
  LET tier   == getUserTier(a.user)
      models == getAvailableModels(tier)
  IN  [a EXCEPT !.userTier = tier,
                !.availableModels = models,
                !.model = IF ~isModelAllowed(a.model, tier) /\ Len(models) > 0
                          THEN models[1].value ELSE a.model]

\* The first render's effects: updateUserTier and loadUsageStatus with no
\* user (restoreSearchFromUrl returns at once); AuthProvider subscribes to
\* onAuthStateChanged.
Mount ==
  /\ ~app.mounted
  /\ app' = [updateUserTier(app) EXCEPT
               !.mounted = TRUE,
               !.usageStatus = <<checkUsageStatus(NoUser, cookie, userUsage, today, TRUE)>>]
  /\ UNCHANGED <<gateVars, textVars, access, uiVars>>

\* onAuthStateChanged hands over u (a sign-in, or NoUser for a sign-out):
\* setUser, and the effects on [user]: updateUserTier; loadUsageStatus, which
\* for a user waits for the store; restoreSearchFromUrl, which after a
\* payment redirect sets the tier again and cleans the URL, and with a
\* search parameter awaits getSearchById(user.uid, searchId).
AuthStateChanged(u) ==
  /\ app.mounted
  /\ (app.user = NoUser) # (u = NoUser)
  /\ app.authChanges < MaxAuthChanges
  /\ LET a == updateUserTier([app EXCEPT !.user = u, !.authChanges = @ + 1])
     IN  app' =
           IF u = NoUser
           THEN [a EXCEPT !.usageStatus =
                   <<checkUsageStatus(NoUser, cookie, userUsage, today, TRUE)>>]
           ELSE [a EXCEPT !.loads = @ \cup {<<u, today>>},
                          !.restores = IF a.urlSearch = NoSearchId THEN @
                                       ELSE @ \cup {<<u, a.urlSearch>>},
                          !.userTier = IF a.urlSuccess THEN getUserTier(u) ELSE @,
                          !.redirected = @ \/ a.urlSuccess,
                          !.urlSuccess = FALSE]
  /\ UNCHANGED <<gateVars, textVars, access, uiVars>>

\* loadUsageStatus for a user: getDoc resolves or rejects, setUsageStatus.
LoadUsageStatusDone(l, readOk) ==
  /\ l \in app.loads
  /\ app' = [app EXCEPT
               !.loads = @ \ {l},
               !.usageStatus =
                 <<checkUsageStatus(l[1], cookie, userUsage, l[2], readOk)>>]
  /\ UNCHANGED <<gateVars, textVars, access, uiVars>>

\* Typing in the search box, which is disabled while a search is loading.
SetSearchQuery(q) ==
  /\ ~app.isLoading
  /\ q # app.searchQuery
  /\ app' = [app EXCEPT !.searchQuery = q]
  /\ UNCHANGED <<gateVars, textVars, access, uiVars>>

\* onClose of the sign-in prompt.
CloseSignInModal ==
  /\ app.showSignInModal
  /\ app' = [app EXCEPT !.showSignInModal = FALSE]
  /\ UNCHANGED <<gateVars, textVars, access, uiVars>>

\* handleSearch from the click (or Enter) to its first await: validation,
\* the gate, and for an admitted search the cleared results and the request.
HandleSearch ==
  /\ ~app.isLoading
  /\ LET o == handleSearchOutcome(app)
     IN  /\ o = "send" => app.sent < MaxSearches
         /\ app' =
              CASE o = "emptyQuery" -> [app EXCEPT !.error = ErrEmptyQuery]
                [] o \in {"signInForModel", "signIn"} ->
                     [app EXCEPT !.showSignInModal = TRUE]
                [] o = "paidModel" -> [app EXCEPT !.error = ErrPaidModel]
                [] o = "noStatus" -> [app EXCEPT !.error = ErrNoStatus]
                [] o = "dailyLimit" -> [app EXCEPT !.error = ErrDailyLimit]
                [] o = "send" ->
                     [app EXCEPT !.isLoading = TRUE, !.error = "",
                                 !.pc = "request", !.uid = app.user,
                                 !.req = [query |-> app.searchQuery,
                                          model |-> app.model],
                                 !.sent = @ + 1]
         /\ IF o = "send"
            THEN /\ searchResults' = <<>>
                 /\ enhancedLinks' = <<>>
            ELSE UNCHANGED <<searchResults, enhancedLinks>>
  /\ UNCHANGED <<gateVars, phase, out, trace, access, uiVars>>

\* A failure path that records the search before it reports the error.
RequestFails_Charged(kind) ==
  /\ app.pc = "request"
  /\ kind \in FailureKinds
  /\ app' = Caught(app, kind)
  /\ cookie' = incrementAnonymousSearchCount(cookie)
  /\ UNCHANGED <<userUsage, today, pc, call, ret, calls, recorded, anonSince>>
  /\ UNCHANGED <<textVars, access, uiVars>>

\* The request fails: fetch rejects, the response is not OK, or its body
\* cannot be read.  Straight to catch and finally.
RequestFails(kind) ==
  /\ app.pc = "request"
  /\ kind \in FailureKinds
  /\ app' = Caught(app, kind)
  /\ UNCHANGED <<gateVars, textVars, access, uiVars>>

\* The response is OK and its body is read: the results are stored, and
\* recordSearch(user?.uid) is called with the user of the render that started
\* the search.  Without a user the rest runs through: the cookie is
\* rewritten, the status recomputed and set, and finally isLoading cleared.
\* With one, incrementDailySearchCount fixes its document and awaits getDoc.
RequestSucceeds(data) ==
  /\ app.pc = "request"
  /\ data \in SearchData
  /\ searchResults' = IF data.summary = <<>> THEN NoResultsFound ELSE data.summary
  /\ enhancedLinks' = IF data.enhanced_links # <<>> THEN data.enhanced_links
                                                    ELSE enhancedLinks
  /\ IF app.uid = NoUser
     THEN /\ cookie' = incrementAnonymousSearchCount(cookie)
          /\ anonSince' = IF anonSince < 0 THEN anonSince ELSE anonSince + 1
          /\ app' = [app EXCEPT
                       !.usageStatus =
                         <<checkUsageStatus(NoUser, cookie', userUsage, today, TRUE)>>,
                       !.isLoading = FALSE, !.pc = "idle"]
     ELSE /\ app' = [app EXCEPT !.pc = "getDoc", !.data = data,
                                !.ref = getUserUsageDoc(app.uid, today)]
          /\ UNCHANGED <<cookie, anonSince>>
  /\ UNCHANGED <<userUsage, today, pc, call, ret, calls, recorded>>
  /\ UNCHANGED <<phase, out, trace, access, uiVars>>

\* incrementDailySearchCount: getDoc resolves with the document as it is now.
IncrementGetDoc ==
  /\ app.pc = "getDoc"
  /\ app' = [app EXCEPT !.pc = "write", !.snap = userUsage[app.ref]]
  /\ UNCHANGED <<gateVars, textVars, access, uiVars>>

\* incrementDailySearchCount: updateDoc or setDoc resolves, recordSearch
\* returns, and checkUsageStatus(user?.uid) awaits its getDoc.
IncrementWrite ==
  /\ app.pc = "write"
  /\ userUsage' = incrementWrite(userUsage, app.ref, app.snap)
  /\ recorded' = [recorded EXCEPT ![app.ref] = @ + 1]
  /\ app' = [app EXCEPT !.pc = "check", !.snap = NoDoc,
                         !.ref = getUserUsageDoc(app.uid, today)]
  /\ UNCHANGED <<cookie, today, pc, call, ret, calls, anonSince>>
  /\ UNCHANGED <<textVars, access, uiVars>>

\* An incrementDailySearchCount whose catch does not rethrow: handleSearch
\* goes on as after a recorded search.
IncrementThrows_Swallowed ==
  /\ app.pc \in {"getDoc", "write"}
  /\ app' = [app EXCEPT !.pc = "check", !.snap = NoDoc,
                         !.ref = getUserUsageDoc(app.uid, today)]
  /\ UNCHANGED <<gateVars, textVars, access, uiVars>>

\* incrementDailySearchCount: getDoc or the write rejects; the catch logs and
\* rethrows, recordSearch rejects, and handleSearch's catch and finally run.
IncrementThrows ==
  /\ app.pc \in {"getDoc", "write"}
  /\ app' = [Caught(app, "store") EXCEPT !.snap = NoDoc]
  /\ UNCHANGED <<gateVars, textVars, access, uiVars>>

\* checkUsageStatus(user?.uid) returns (a failed read counts as 0),
\* setUsageStatus, and saveSearchToHistory awaits its setDoc.
CheckDone(readOk) ==
  /\ app.pc = "check"
  /\ app' = [app EXCEPT
               !.pc = "save",
               !.usageStatus =
                 <<checkUsageStatus(app.uid, cookie, userUsage, app.ref[2], readOk)>>]
  /\ UNCHANGED <<gateVars, textVars, access, uiVars>>

\* data.summary || 'No results'
NoResults == <<"N", "o", " ", "r", "e", "s", "u", "l", "t", "s">>

\* searchDataToSave with the id saveSearchToHistory gives it.
SearchDataToSave(a) ==
  [id |-> SearchId(a.sent), query |-> a.req.query, model |-> a.req.model,
   summary |-> IF a.data.summary = <<>> THEN NoResults ELSE a.data.summary,
   enhancedLinks |-> a.data.enhanced_links]

\* A save that writes the record under every user's id.
SaveDone_AllUsers(writeOk) ==
  /\ app.pc = "save"
  /\ app' = IF writeOk
            THEN [app EXCEPT !.searches[app.uid] = @ + 1,
                             !.history = [u \in Users |-> @[u] \cup {SearchDataToSave(app)}],
                             !.urlSearch = SearchId(app.sent),
                             !.data = NoData,
                             !.isLoading = FALSE, !.pc = "idle"]
            ELSE Caught(app, "store")
  /\ UNCHANGED <<gateVars, textVars, access, uiVars>>

\* saveSearchToHistory: setDoc resolves (one more record under users/uid/
\* searches, and the URL gets its id) or rejects (rethrown and caught).
SaveDone(writeOk) ==
  /\ app.pc = "save"
  /\ app' = IF writeOk
            THEN [app EXCEPT !.searches[app.uid] = @ + 1,
                             !.history[app.uid] = @ \cup {SearchDataToSave(app)},
                             !.urlSearch = SearchId(app.sent),
                             !.data = NoData,
                             !.isLoading = FALSE, !.pc = "idle"]
            ELSE Caught(app, "store")
  /\ UNCHANGED <<gateVars, textVars, access, uiVars>>

\* The state setters shared by onSelectSearch and restoreSearchFromUrl:
\* query, summary and model are set, the enhanced links only when the item
\* has them, and the effect on [user, model] runs.
ShowSearch(a, item) ==
  updateUserTier([a EXCEPT !.searchQuery = item.query, !.model = item.model])

\* An onSelectSearch that runs the search again.
SelectSearch_Rerun(u, item) ==
  /\ app.mounted
  /\ app.user = u
  /\ u \in Users
  /\ item \in app.history[u]
  /\ app.sent < MaxSearches
  /\ app' = [ShowSearch(app, item) EXCEPT !.urlSearch = item.id, !.sent = @ + 1]
  /\ searchResults' = item.summary
  /\ enhancedLinks' = IF item.enhancedLinks # <<>> THEN item.enhancedLinks
                                                   ELSE enhancedLinks
  /\ UNCHANGED <<gateVars, phase, out, trace, access, uiVars>>

\* onSelectSearch(search): an item of the sidebar's list, which is loaded
\* for the signed-in user, is clicked; the URL gets its id.
SelectSearch(u, item) ==
  /\ app.mounted
  /\ app.user = u
  /\ u \in Users
  /\ item \in app.history[u]
  /\ app' = [ShowSearch(app, item) EXCEPT !.urlSearch = item.id]
  /\ searchResults' = item.summary
  /\ enhancedLinks' = IF item.enhancedLinks # <<>> THEN item.enhancedLinks
                                                   ELSE enhancedLinks
  /\ UNCHANGED <<gateVars, phase, out, trace, access, uiVars>>

\* getSearchById(userId, searchId): the record users/userId/searches/
\* searchId, or null when there is none.
getSearchById(history, userId, searchId) ==
  { item \in history[userId] : item.id = searchId }

\* restoreSearchFromUrl after its await: getSearchById rejects (logged), or
\* gives null (logged), or gives the record, which is shown.
RestoreDone(r, readOk) ==
  /\ r \in app.restores
  /\ LET found == getSearchById(app.history, r[1], r[2])
         a     == [app EXCEPT !.restores = @ \ {r}]
     IN  IF readOk /\ found # {}
         THEN LET item == CHOOSE i \in found : TRUE
              IN  /\ app' = ShowSearch(a, item)
                  /\ searchResults' = item.summary
                  /\ enhancedLinks' = IF item.enhancedLinks # <<>>
                                      THEN item.enhancedLinks ELSE enhancedLinks
         ELSE /\ app' = a
              /\ UNCHANGED <<searchResults, enhancedLinks>>
  /\ UNCHANGED <<gateVars, phase, out, trace, access, uiVars>>

\* The page is opened with a plain URL, with ?success=true (back from the
\* payment page), or with ?search= and the id of a stored search.
InitApp ==
  /\ GateIdle
  /\ TextIdle
  /\ app \in { AppStart(urlSuccess) : urlSuccess \in BOOLEAN }
             \cup { [AppStart(FALSE) EXCEPT !.urlSearch = OldSearch.id] }
  /\ access = NoAccess
  /\ UiIdle

NextApp ==
  \/ Mount
  \/ \E u \in Users \cup {NoUser} : AuthStateChanged(u)
  \/ \E l \in Users \X Days, ok \in BOOLEAN : LoadUsageStatusDone(l, ok)
  \/ \E q \in Queries : SetSearchQuery(q)
  \/ CloseSignInModal
  \/ HandleSearch
  \/ \E kind \in FailureKinds : RequestFails(kind)
  \/ \E data \in SearchData : RequestSucceeds(data)
  \/ IncrementGetDoc
  \/ IncrementWrite
  \/ IncrementThrows
  \/ \E ok \in BOOLEAN : CheckDone(ok)
  \/ \E ok \in BOOLEAN : SaveDone(ok)
  \/ \E u \in Users : \E item \in app.history[u] : SelectSearch(u, item)
  \/ \E r \in app.restores, ok \in BOOLEAN : RestoreDone(r, ok)

SpecApp == InitApp /\ [][NextApp]_vars

\* What follows an await of handleSearch: the promise settles, one way or
\* the other, and the handler goes on.
Settle ==
  \/ \E kind \in FailureKinds : RequestFails(kind)
  \/ \E data \in SearchData : RequestSucceeds(data)
  \/ IncrementGetDoc
  \/ IncrementWrite
  \/ IncrementThrows
  \/ \E ok \in BOOLEAN : CheckDone(ok)
  \/ \E ok \in BOOLEAN : SaveDone(ok)

\* The app when every promise handleSearch awaits is settled in the end.
SpecAppLive == SpecApp /\ WF_vars(Settle)

\* ------------------------------------------------------------- app claims

\* The usage counters of a state: the cookie and the userUsage collection.
Counters == <<cookie, userUsage>>

\* C15: a step in which the search request fails changes no counter and ends
\* the handleSearch; the counters change only as part of recordSearch after
\* a request that succeeded.
C15_FailedSearchNotCharged ==
  [][ /\ (\E kind \in FailureKinds : RequestFails(kind)) =>
           Counters' = Counters /\ app'.pc = "idle"
      /\ Counters' # Counters =>
           \/ \E data \in SearchData : RequestSucceeds(data)
           \/ IncrementWrite
    ]_vars

C15_Witness ==
  /\ app.uid \in Users
  /\ app.sent = 1
  /\ app.pc = "idle"
  /\ app.error = ErrOf("status")
  /\ cookie = NoCookie
  /\ \A d \in DocIds : userUsage[d] = NoDoc

\* The loaded status handleSearch consults.
Status == app.usageStatus[1]

\* C16: a handleSearch that reaches the gate (query not blank, model
\* allowed) opens the sign-in prompt when the status has requiresSignIn,
\* sets the daily-limit error when the status is authenticated with
\* canSearch = FALSE, and sets the retry error when there is no status; in
\* these cases no request is sent and no counter changes.
C16_GateOutcomes ==
  [][ HandleSearch /\ Trim(app.searchQuery) # <<>>
                   /\ isModelAllowed(app.model, app.userTier) =>
        LET noStatus   == app.usageStatus = NoStatus
            signIn     == ~noStatus /\ Status.requiresSignIn
            dailyLimit == ~noStatus /\ ~Status.canSearch /\ Status.isAuthenticated
        IN  /\ signIn => app'.showSignInModal
            /\ dailyLimit => app'.error = ErrDailyLimit
            /\ noStatus => app'.error = ErrNoStatus
            /\ signIn \/ dailyLimit \/ noStatus =>
                  /\ app'.sent = app.sent
                  /\ app'.pc = "idle" /\ ~app'.isLoading
                  /\ Counters' = Counters
    ]_vars

C16_Witness ==
  /\ app.showSignInModal
  /\ app.user = NoUser
  /\ app.usageStatus # NoStatus
  /\ Status.requiresSignIn
  /\ Status.searchCount = ANONYMOUS_SEARCH_LIMIT
  /\ app.sent = 1
  /\ app.pc = "idle"

C20_RecordFailureReported ==
  [][ /\ IncrementThrows =>
           /\ app'.error # ""
           /\ app'.pc = "idle" /\ ~app'.isLoading
           /\ app'.usageStatus = app.usageStatus
           /\ app'.searches = app.searches
           /\ Counters' = Counters
      /\ app.pc \in {"getDoc", "write"} /\ app'.pc \notin {"getDoc", "write"} =>
           \/ app'.pc = "idle" /\ app'.error # ""
           \/ /\ app'.pc = "check"
              /\ userUsage'[app.ref].exists
              /\ userUsage'[app.ref].searchCount > 0
              /\ userUsage' # userUsage \/ ~app.snap.exists
    ]_vars

C20_Witness ==
  /\ app.uid \in Users
  /\ app.sent = 1
  /\ app.pc = "idle"
  /\ app.error = ErrOf("store")
  /\ \A d \in DocIds : userUsage[d] = NoDoc
  /\ app.usageStatus # NoStatus /\ ~Status.isAuthenticated
  /\ \A u \in Users : app.searches[u] = 0

\* ------------------------------------------------- the authenticated counters

\* C21: a step that changes the userUsage collection is the write of a
\* recordSearch(u) and changes only the document of (u, the date of the
\* call); it leaves the cookie alone, and an anonymous recordSearch() leaves
\* the collection alone; no step removes a document or lowers its
\* searchCount.
C21_CounterFrame ==
  [][ /\ \A t \in Tabs, u \in Users, ok \in BOOLEAN :
           RecordSearchRead(t, u, ok) /\ ok => call'[t].ref = <<u, today>>
      /\ userUsage' # userUsage =>
           \E t \in Tabs :
             /\ RecordSearchWrite(t, TRUE)
             /\ call[t].ref[1] = call[t].userId
             /\ \A d \in DocIds \ {call[t].ref} : userUsage'[d] = userUsage[d]
             /\ cookie' = cookie
      /\ \A t \in Tabs : RecordSearchAnon(t) => userUsage' = userUsage
      /\ \A d \in DocIds :
           /\ userUsage[d].exists => userUsage'[d].exists
           /\ userUsage'[d].searchCount >= userUsage[d].searchCount
    ]_vars

\* ------------------------------------------------------- the search gate

\* C22: a step that sends a search request is a handleSearch taken with a
\* query that is not blank after trimming, a loaded usage status whose
\* canSearch is TRUE, and a selected model the tier allows.
C22_SendPreconditions ==
  [][ app'.sent > app.sent =>
        /\ HandleSearch
        /\ Trim(app.searchQuery) # <<>>
        /\ app.usageStatus # NoStatus
        /\ Status.canSearch
        /\ isModelAllowed(app.model, app.userTier)
    ]_vars

C22_Witness ==
  /\ app.pc = "request"
  /\ app.sent = 1
  /\ app.uid \in Users
  /\ Trim(app.searchQuery) # <<>>
  /\ app.usageStatus # NoStatus /\ Status.canSearch
  /\ isModelAllowed(app.model, app.userTier)

\* C23: a request sent without a user is sent while the anonymous counter
\* is below ANONYMOUS_SEARCH_LIMIT, and a handleSearch run without a user
\* consults an anonymous status, never the authenticated status of a user
\* who was signed in before.
C23_CurrentIdentityStatus ==
  [][ /\ app'.sent > app.sent /\ app.user = NoUser =>
           getAnonymousSearchCount(cookie) < ANONYMOUS_SEARCH_LIMIT
      /\ HandleSearch /\ app.user = NoUser
           /\ handleSearchOutcome(app) \in {"signIn", "dailyLimit", "send"} =>
           ~Status.isAuthenticated
    ]_vars

\* ------------------------------------------------------- the search history

\* C24: after onSelectSearch or a restore from the URL has shown a history
\* item, the summary displayed is the item's and the enhanced links, which
\* rewrite the summary, are the item's own or empty.
C24_NoLeftoverDisplay ==
  [][ /\ \A u \in Users : \A item \in app.history[u] :
           SelectSearch(u, item) =>
             /\ searchResults' = item.summary
             /\ enhancedLinks' \in {item.enhancedLinks, <<>>}
      /\ \A r \in app.restores :
           RestoreDone(r, TRUE) =>
             \A item \in getSearchById(app.history, r[1], r[2]) :
               /\ searchResults' = item.summary
               /\ enhancedLinks' \in {item.enhancedLinks, <<>>}
    ]_vars

\* C25: the selected model is one the tier allows in every state, and a
\* history item whose model the tier does not allow, once shown, leaves the
\* model at the first of the tier's list.
C25_ModelReset ==
  [][ /\ isModelAllowed(app.model, app.userTier)
      /\ isModelAllowed(app'.model, app'.userTier)
      /\ \A u \in Users : \A item \in app.history[u] :
           /\ ~isModelAllowed(item.model, app.userTier)
           /\ \/ SelectSearch(u, item)
              \/ \E r \in app.restores :
                   RestoreDone(r, TRUE) /\ item \in getSearchById(app.history, r[1], r[2])
           => app'.model = getAvailableModels(app'.userTier)[1].value
    ]_vars

C25_Witness ==
  /\ app.user = "u1"
  /\ app.userTier = "free"
  /\ app.urlSearch = OldSearch.id
  /\ searchResults = OldSearch.summary
  /\ ~isModelAllowed(OldSearch.model, app.userTier)
  /\ app.model = GeminiFlash

\* C26: the history store changes only when saveSearchToHistory resolves
\* for the signed-in user who started the search, after the usage was
\* recorded (the save is reached only through the usage check, and that
\* only through the counter write); the step adds exactly one record, under
\* that user's id.  A search without a user ends without a write, a step
\* that ends a search with an error writes nothing, and a signed-in search
\* that ends without an error has written its one record.
C26_HistoryWrites ==
  [][ /\ app'.history # app.history =>
           /\ SaveDone(TRUE)
           /\ app.uid \in Users
           /\ recorded[app.ref] > 0
           /\ \A u \in Users \ {app.uid} : app'.history[u] = app.history[u]
           /\ app'.history[app.uid] = app.history[app.uid] \cup {SearchDataToSave(app)}
           /\ Cardinality(app'.history[app.uid]) = Cardinality(app.history[app.uid]) + 1
      /\ app'.pc = "save" /\ app.pc # "save" => app.pc = "check"
      /\ app'.pc = "check" /\ app.pc # "check" => IncrementWrite /\ recorded' # recorded
      /\ app.pc # "idle" /\ app.uid = NoUser => app'.history = app.history
      /\ app.pc # "idle" /\ app'.pc = "idle" /\ app'.error # "" =>
           app'.history = app.history
      /\ app.pc # "idle" /\ app'.pc = "idle" /\ app'.error = "" /\ app.uid \in Users =>
           /\ SearchDataToSave(app) \in app'.history[app.uid]
           /\ SearchDataToSave(app) \notin app.history[app.uid]
    ]_vars

C26_Witness ==
  /\ app.pc = "idle"
  /\ app.uid = "u2"
  /\ app.error = ""
  /\ Cardinality(app.history["u2"]) = 1
  /\ \E d \in DocIds : d[1] = "u2" /\ recorded[d] = 1
  /\ app.history["u1"] = StoredSearches["u1"]

\* C27: a step that shows a past search, onSelectSearch or the end of a
\* restore from the URL, sends no request, starts no handleSearch, and leaves
\* the cookie, the userUsage collection and the history store as they are.
C27_DisplayFrame ==
  [][ \/ \E u \in Users : \E item \in app.history[u] : SelectSearch(u, item)
      \/ \E r \in app.restores, ok \in BOOLEAN : RestoreDone(r, ok)
      => /\ app'.sent = app.sent
         /\ app'.pc = app.pc /\ app'.isLoading = app.isLoading
         /\ Counters' = Counters
         /\ recorded' = recorded
         /\ app'.history = app.history
         /\ app'.searches = app.searches
    ]_vars

C27_Witness ==
  /\ app.user = "u1"
  /\ app.restores = {}
  /\ app.loads # {}
  /\ searchResults = OldSearch.summary
  /\ app.searchQuery = OldSearch.query
  /\ app.sent = 0
  /\ cookie = NoCookie
  /\ \A d \in DocIds : userUsage[d] = NoDoc
  /\ app.history = StoredSearches

\* C28: isLoading is TRUE exactly while an admitted handleSearch is between
\* its start and its end (a rejected one never sets it), and every
\* handleSearch that is loading comes to its end with isLoading FALSE,
\* whichever way each of its awaits settles.
C28_LoadingEnds ==
  /\ [](app.isLoading <=> app.pc # "idle")
  /\ (app.isLoading ~> ~app.isLoading)

C28_Witness ==
  /\ app.pc = "idle"
  /\ ~app.isLoading
  /\ app.sent = 2
  /\ app.uid \in Users
  /\ app.error = ErrOf("store")
  /\ recorded[getUserUsageDoc(app.uid, today)] = 2
  /\ app.searches[app.uid] = 1

\* ======================================================================
\* SpecConsole: SearchProgressConsole as App uses it: rendered while
\*              isLoading is TRUE (with isVisible = isLoading) and removed
\*              when it is FALSE.  setTimeout callbacks run in any order;
\*              the inner timers are not cleared by the effect's cleanup,
\*              and one of a removed instance sets the state of that
\*              instance, which no longer shows.
\* ======================================================================

\* How many times one behaviour shows the console.
MaxShows == 2

\* The other components stay as constructed.
AppIdle ==
  /\ GateIdle
  /\ TextIdle
  /\ app = AppStart(FALSE)
  /\ access = NoAccess

\* (visibleSteps.length / progressSteps.length) * 100, rounded down.
progress == (Len(console.visibleSteps) * 100) \div Len(progressSteps)

\* The second effect: with isVisible and not isComplete, a setTimeout for
\* progressSteps[currentStep] if there is such a step; its cleanup has
\* cleared the timer of the run before.
progressEffect(c) ==
  [c EXCEPT !.timer = IF c.isVisible /\ ~c.isComplete
                         /\ c.currentStep < Len(progressSteps)
                      THEN c.currentStep ELSE NoTimer]

\* App renders the console (isLoading became TRUE): a new instance with the
\* useState initial values; the first effect sets them again and the second
\* sets the timer for step 0.
ShowConsole ==
  /\ ~console.isVisible
  /\ console.instance < MaxShows
  /\ console' = progressEffect(
       [console EXCEPT !.instance = @ + 1, !.isVisible = TRUE, !.currentStep = 0,
                       !.visibleSteps = <<>>, !.isComplete = FALSE])
  /\ UNCHANGED <<gateVars, textVars, appVars, account>>

\* App stops rendering the console (isLoading became FALSE): the cleanup
\* clears the outer timer; the inner ones stay pending.
HideConsole ==
  /\ console.isVisible
  /\ console' = [console EXCEPT !.isVisible = FALSE, !.timer = NoTimer]
  /\ UNCHANGED <<gateVars, textVars, appVars, account>>

\* The outer setTimeout fires: the step becomes visible and the inner
\* setTimeout (step.duration) is set.
OuterFires ==
  /\ console.timer # NoTimer
  /\ console' = [console EXCEPT
                   !.visibleSteps = Append(@, progressSteps[console.timer + 1]),
                   !.inner = @ \cup {<<console.instance, console.timer>>},
                   !.timer = NoTimer]
  /\ UNCHANGED <<gateVars, textVars, appVars, account>>

\* What an inner setTimeout does to the instance it belongs to: for the
\* last step setIsComplete(true), else setCurrentStep(prev => prev + 1);
\* the second effect runs again.
innerTimeout(c, step) ==
  progressEffect(
    IF step = Len(progressSteps) - 1
    THEN [c EXCEPT !.isComplete = TRUE]
    ELSE [c EXCEPT !.currentStep = @ + 1])

\* An inner setTimeout that sets the state of whichever instance shows.
InnerFires_AnyInstance(t) ==
  /\ t \in console.inner
  /\ console' = LET c == [console EXCEPT !.inner = @ \ {t}]
                IN  IF c.isVisible THEN innerTimeout(c, t[2]) ELSE c
  /\ UNCHANGED <<gateVars, textVars, appVars, account>>

\* An inner setTimeout fires.  Set by the instance that shows, it moves that
\* instance on; set by a removed one, it changes nothing that shows.
InnerFires(t) ==
  /\ t \in console.inner
  /\ console' = LET c == [console EXCEPT !.inner = @ \ {t}]
                IN  IF c.isVisible /\ t[1] = c.instance
                    THEN innerTimeout(c, t[2]) ELSE c
  /\ UNCHANGED <<gateVars, textVars, appVars, account>>

\* A setTimeout callback runs.
TimerFires ==
  \/ OuterFires
  \/ \E t \in console.inner : InnerFires(t)

InitConsole ==
  /\ AppIdle
  /\ UiIdle

NextConsole ==
  \/ ShowConsole
  \/ HideConsole
  \/ OuterFires
  \/ \E t \in console.inner : InnerFires(t)

SpecConsole == InitConsole /\ [][NextConsole]_vars

\* The event loop runs every timer that is due.
SpecConsoleLive == SpecConsole /\ WF_vars(TimerFires)

\* C29: the visible steps are always the first so-many of the declared
\* steps, so each appears at most once and in order, and the percentage is
\* at most 100; a step changes them by adding the next one or, when the
\* console is shown again, by emptying them; the console is complete only
\* with the last step visible; and a console that is visible becomes
\* complete unless it is hidden first.
C29_ProgressInOrder ==
  /\ [](/\ Len(console.visibleSteps) <= Len(progressSteps)
        /\ console.visibleSteps = SubSeq(progressSteps, 1, Len(console.visibleSteps))
        /\ progress <= 100
        /\ console.isComplete =>
              console.visibleSteps = progressSteps /\ progress = 100)
  /\ [][ /\ console'.visibleSteps # console.visibleSteps =>
               \/ /\ Len(console'.visibleSteps) = Len(console.visibleSteps) + 1
                  /\ console'.isVisible
               \/ ShowConsole
         /\ ShowConsole =>
               /\ console'.visibleSteps = <<>>
               /\ console'.currentStep = 0
               /\ ~console'.isComplete
       ]_vars
  /\ (console.isVisible ~> (console.isComplete \/ ~console.isVisible))

C29_Witness ==
  /\ console.instance = 2
  /\ console.isVisible
  /\ console.isComplete
  /\ console.visibleSteps = progressSteps
  /\ progress = 100
  /\ console.inner # {}

\* ======================================================================
\* SpecAccount: the Header's user menu: sign-in, sign-out, and
\*              handleDeleteAccount with each of its awaits a step.
\* ======================================================================

\* How many times one behaviour calls handleDeleteAccount.
MaxDeletes == 2

\* How the delete request can fail: apiCall rejects, the response is not
\* OK, or it is not OK and its body cannot be read.
DeleteFailures == {"network", "status", "body"}

\* signInWithGoogle, and onAuthStateChanged hands over u.
AccountSignIn(u) ==
  /\ account.user = NoUser
  /\ u \in Users
  /\ account.authChanges < MaxAuthChanges
  /\ account' = [account EXCEPT !.user = u, !.authChanges = @ + 1]
  /\ UNCHANGED <<gateVars, textVars, appVars, console>>

\* handleAuthAction with a user: signOut().
AccountSignOut ==
  /\ account.user # NoUser
  /\ account.authChanges < MaxAuthChanges
  /\ account' = [account EXCEPT !.user = NoUser, !.authChanges = @ + 1]
  /\ UNCHANGED <<gateVars, textVars, appVars, console>>

\* handleDeleteAccount up to its first await: without a user it returns
\* (the menu entry is not rendered); window.confirm answers; declined, it
\* returns; confirmed, the request with user.uid is sent.
HandleDeleteAccount(confirmed) ==
  /\ account.user # NoUser
  /\ account.started < MaxDeletes
  /\ account' =
       IF confirmed
       THEN [account EXCEPT
               !.started = @ + 1,
               !.requests = Append(@, account.user),
               !.inflight = @ \cup {[id |-> account.started + 1, pc |-> "request",
                                     uid |-> account.user]}]
       ELSE [account EXCEPT !.started = @ + 1]
  /\ UNCHANGED <<gateVars, textVars, appVars, console>>

\* A failed delete request that signs the user out all the same.
DeleteFails_SignsOut(h, kind) ==
  /\ h \in account.inflight
  /\ h.pc = "request"
  /\ kind \in DeleteFailures
  /\ account' = [account EXCEPT !.inflight = @ \ {h}, !.alert = AlertFailed,
                                !.user = NoUser]
  /\ UNCHANGED <<gateVars, textVars, appVars, console>>

\* The delete request fails: to the catch, which alerts the failure.
DeleteFails(h, kind) ==
  /\ h \in account.inflight
  /\ h.pc = "request"
  /\ kind \in DeleteFailures
  /\ account' = [account EXCEPT !.inflight = @ \ {h}, !.alert = AlertFailed]
  /\ UNCHANGED <<gateVars, textVars, appVars, console>>

\* The backend answers OK: it has deleted the account of the posted
\* userId; handleDeleteAccount awaits signOut().
DeleteConfirmed(h) ==
  /\ h \in account.inflight
  /\ h.pc = "request"
  /\ account' = [account EXCEPT
                   !.inflight = (@ \ {h}) \cup {[h EXCEPT !.pc = "signOut"]},
                   !.deleted = @ \cup {h.uid}]
  /\ UNCHANGED <<gateVars, textVars, appVars, console>>

\* signOut() resolves (whoever is signed in is signed out, and the success
\* alert is given) or rejects (rethrown by signOut, caught, failure alert).
SignOutDone(h, ok) ==
  /\ h \in account.inflight
  /\ h.pc = "signOut"
  /\ account' = IF ok
                THEN [account EXCEPT !.inflight = @ \ {h}, !.user = NoUser,
                                     !.alert = AlertDeleted]
                ELSE [account EXCEPT !.inflight = @ \ {h}, !.alert = AlertFailed]
  /\ UNCHANGED <<gateVars, textVars, appVars, console>>

InitAccount ==
  /\ AppIdle
  /\ UiIdle

NextAccount ==
  \/ \E u \in Users : AccountSignIn(u)
  \/ AccountSignOut
  \/ \E confirmed \in BOOLEAN : HandleDeleteAccount(confirmed)
  \/ \E h \in account.inflight, kind \in DeleteFailures : DeleteFails(h, kind)
  \/ \E h \in account.inflight : DeleteConfirmed(h)
  \/ \E h \in account.inflight, ok \in BOOLEAN : SignOutDone(h, ok)

SpecAccount == InitAccount /\ [][NextAccount]_vars

\* C30: a step of handleDeleteAccount that signs the user out is the one
\* after signOut() resolved, taken by a call whose userId the backend has
\* confirmed as deleted; a declined confirmation sends no request and
\* changes nothing else; a failed delete request leaves the user signed in
\* as before, confirms no deletion and gives the failure alert.
C30_SignOutAfterConfirmation ==
  [][ /\ account'.user # account.user /\ account'.inflight # account.inflight =>
           \E h \in account.inflight :
             /\ SignOutDone(h, TRUE)
             /\ h.uid \in account.deleted
             /\ account'.alert = AlertDeleted
      /\ HandleDeleteAccount(FALSE) =>
           /\ account'.requests = account.requests
           /\ account'.inflight = account.inflight
           /\ account'.user = account.user
           /\ account'.deleted = account.deleted
      /\ \A h \in account.inflight, kind \in DeleteFailures :
           DeleteFails(h, kind) =>
             /\ account'.user = account.user
             /\ account'.deleted = account.deleted
             /\ account'.alert = AlertFailed
      /\ Len(account'.requests) > Len(account.requests) =>
           HandleDeleteAccount(TRUE) /\ account.user # NoUser
    ]_vars

C30_Witness ==
  /\ account.user \in Users
  /\ account.authChanges = 1
  /\ account.started = 2
  /\ Len(account.requests) = 1
  /\ account.inflight = {}
  /\ account.deleted = {}
  /\ account.alert = AlertFailed


====
